---- MODULE Spec2Model ----
(***************************************************************************)
(* Model of the install-banner visibility engine of                        *)
(* src/components/PWABanner.tsx: the React component PWABanner, its mount  *)
(* effect (timer + two window listeners), its three click handlers, the    *)
(* two browser storages it reads and writes, and the browser events that   *)
(* drive it.                                                               *)
(*                                                                         *)
(* One action is one task of the UI thread: a page load, a (re)render with *)
(* its effect, a timer callback, a DOM event handler, a click handler up   *)
(* to its first await, or the resolution of userChoice with the            *)
(* continuations that await it.  A render and the effect it commits are    *)
(* one step.                                                               *)
(***************************************************************************)
EXTENDS Naturals, FiniteSets

\* ---- bounds ----
\* beforeinstallprompt events dispatched within one page load
MaxHandles == 2
\* prompt() calls made on one captured event
MaxClicks == 2

Handles == 1..MaxHandles

\* navigator.userAgent samples, lower-cased (line 53)
UserAgents == {"iphone", "android"}
\* window.matchMedia('(display-mode: standalone)').matches, or the call throws
MatchMediaResults == {"match", "nomatch", "throws"}
\* navigator.standalone: true, false or undefined
NavStandaloneValues == {"true", "false", "undefined"}
\* navigator.standalone exists on iOS Safari only (hence the cast of line 33)
NavStandaloneOn(ua) ==
  IF ua \in {"iphone", "ipad", "ipod"} THEN NavStandaloneValues ELSE {"undefined"}
\* userChoice settles with an outcome or rejects
Outcomes == {"accepted", "dismissed", "rejected"}

VARIABLES
  enablePWABanner,  \* settings.enablePWABanner
  mounted,          \* the component instance exists
  userAgent,        \* navigator.userAgent of this browser
  matchMedia,       \* result of the display-mode query in this page load
  navStandalone,    \* navigator.standalone in this page load
  isStandalone,     \* useMemo value (lines 28-38)
  localStorage,     \* value under INSTALLED_KEY: "1" or "null"
  sessionStorage,   \* value under HIDE_SESSION_KEY: "1" or "null"
  showBanner,       \* useState (line 24)
  deferredPrompt,   \* useState (line 25): 0 is null, else the captured event
  isIOS,            \* useState (line 26)
  timer,            \* the setTimeout of line 58: none/pending/fired/cleared
  listening,        \* both window listeners attached (lines 66, 74)
  nextHandle,       \* beforeinstallprompt events delivered in this page load
  promptCalls,      \* prompt() calls made on the event held in deferredPrompt
  waitLive,         \* events whose userChoice closures of the current instance await
  waitStale,        \* events whose userChoice closures of unmounted instances await
  lastOp,           \* history: the task that produced this state
  bipSeen,          \* history: beforeinstallprompt handled since the timer was set
  loadInstalled,    \* history: INSTALLED_KEY was "1" when this page load started
  clearedDismissal, \* history: this session began by dropping a set HIDE_SESSION_KEY
  loadSkipped,      \* history: how the effect's gates stood when this page load mounted
  acceptedSeen,     \* history: this instance ran the 'accepted' branch of lines 90-93
  installedSeen     \* history: this instance ran handleInstalled

vars == <<enablePWABanner, mounted, userAgent, matchMedia, navStandalone,
          isStandalone, localStorage, sessionStorage, showBanner,
          deferredPrompt, isIOS, timer, listening, nextHandle, promptCalls,
          waitLive, waitStale, lastOp, bipSeen, loadInstalled,
          clearedDismissal, loadSkipped, acceptedSeen, installedSeen>>

platformVars == <<userAgent, matchMedia, navStandalone>>
handleVars == <<nextHandle, promptCalls, waitLive, waitStale>>

\* ---- pure helpers ----

\* lines 28-38: the try block evaluates matchMedia first; if it throws the
\* catch returns false and navigator.standalone is never consulted.
IsStandaloneOf(mm, nav) ==
  IF mm = "throws" THEN FALSE
  ELSE (mm = "match") \/ (nav = "true")

\* line 54: /iphone|ipad|ipod/.test(ua)
IsIosDevice(ua) == ua \in {"iphone", "ipad", "ipod"}

\* Variant of the effect's gate without the early return of line 41.
EffectPasses_NoEnabledCheck(en, sa, ls, ss) ==
  /\ ~sa
  /\ ~(ls = "1")
  /\ ~(ss = "1")

\* Variant of the effect's gate without the early return of line 47.
EffectPasses_NoInstalledCheck(en, sa, ls, ss) ==
  /\ en
  /\ ~sa
  /\ ~(ss = "1")

\* lines 41-50: the effect's four early returns; TRUE when the body runs.
EffectPasses(en, sa, ls, ss) ==
  /\ en
  /\ ~sa
  /\ ~(ls = "1")
  /\ ~(ss = "1")

\* Variant of the cleanup without the clearTimeout of line 77.
TimerAfterCleanup_NoClear ==
  timer

\* lines 41-50 at mount: "no" when the effect's body runs; "gated" when a
\* return that no settings change can lift is taken (lines 44, 47, 50);
\* "disabled" when only the return of line 41 is taken.
LoadSkippedOf(en, sa, ls, ss) ==
  IF EffectPasses(en, sa, ls, ss) THEN "no"
  ELSE IF sa \/ ls = "1" \/ ss = "1" THEN "gated"
  ELSE "disabled"

\* lines 76-80: the cleanup the previous effect run returned, if it returned one.
TimerAfterCleanup ==
  IF listening /\ timer = "pending" THEN "cleared" ELSE timer

\* lines 118-119: the render gate.
Rendered == mounted /\ enablePWABanner /\ showBanner

InstalledMarker == localStorage = "1"
SessionDismissal == sessionStorage = "1"

\* ---- construction ----

\* First page load of a fresh browser profile: both storages empty, the
\* component mounted with its useState defaults and its effect already run.
Init ==
  /\ enablePWABanner \in BOOLEAN
  /\ mounted = TRUE
  /\ userAgent \in UserAgents
  /\ matchMedia \in MatchMediaResults
  /\ navStandalone \in NavStandaloneOn(userAgent)
  /\ isStandalone = IsStandaloneOf(matchMedia, navStandalone)
  /\ localStorage = "null"
  /\ sessionStorage = "null"
  /\ showBanner = FALSE
  /\ deferredPrompt = 0
  /\ isIOS = (EffectPasses(enablePWABanner, isStandalone, localStorage, sessionStorage)
              /\ IsIosDevice(userAgent))
  /\ timer = IF EffectPasses(enablePWABanner, isStandalone, localStorage, sessionStorage)
             THEN "pending" ELSE "none"
  /\ listening = EffectPasses(enablePWABanner, isStandalone, localStorage, sessionStorage)
  /\ nextHandle = 0
  /\ promptCalls = 0
  /\ waitLive = {}
  /\ waitStale = {}
  /\ lastOp = "PageLoad"
  /\ bipSeen = FALSE
  /\ loadInstalled = FALSE
  /\ clearedDismissal = FALSE
  /\ loadSkipped = LoadSkippedOf(enablePWABanner, isStandalone, localStorage, sessionStorage)
  /\ acceptedSeen = FALSE
  /\ installedSeen = FALSE

\* ---- mount, effect, teardown ----

\* lines 24-26 and 40-81 on a new component instance: useState defaults,
\* useMemo, then the effect with the storages as given.
MountInstance(mm, nav, ls, ss) ==
  /\ mounted' = TRUE
  /\ isStandalone' = IsStandaloneOf(mm, nav)
  /\ showBanner' = FALSE
  /\ deferredPrompt' = 0
  /\ isIOS' = (EffectPasses(enablePWABanner, IsStandaloneOf(mm, nav), ls, ss)
               /\ IsIosDevice(userAgent))
  /\ timer' = IF EffectPasses(enablePWABanner, IsStandaloneOf(mm, nav), ls, ss)
              THEN "pending" ELSE "none"
  /\ listening' = EffectPasses(enablePWABanner, IsStandaloneOf(mm, nav), ls, ss)
  /\ bipSeen' = FALSE
  /\ acceptedSeen' = FALSE
  /\ installedSeen' = FALSE

\* The browser navigates to / reloads the page in the same session: the old
\* JavaScript context (timers, listeners, events, pending promises) is gone.
PageLoad ==
  /\ \E mm \in MatchMediaResults, nav \in NavStandaloneOn(userAgent) :
       /\ matchMedia' = mm
       /\ navStandalone' = nav
       /\ MountInstance(mm, nav, localStorage, sessionStorage)
       /\ loadSkipped' = LoadSkippedOf(enablePWABanner, IsStandaloneOf(mm, nav),
                                       localStorage, sessionStorage)
  /\ nextHandle' = 0
  /\ promptCalls' = 0
  /\ waitLive' = {}
  /\ waitStale' = {}
  /\ loadInstalled' = InstalledMarker
  /\ clearedDismissal' = FALSE
  /\ lastOp' = "PageLoad"
  /\ UNCHANGED <<enablePWABanner, userAgent, localStorage, sessionStorage>>

\* The browsing context is closed (sessionStorage is dropped) and the page is
\* opened again in a fresh session.
NewSession ==
  /\ sessionStorage' = "null"
  /\ \E mm \in MatchMediaResults, nav \in NavStandaloneOn(userAgent) :
       /\ matchMedia' = mm
       /\ navStandalone' = nav
       /\ MountInstance(mm, nav, localStorage, "null")
       /\ loadSkipped' = LoadSkippedOf(enablePWABanner, IsStandaloneOf(mm, nav),
                                       localStorage, "null")
  /\ nextHandle' = 0
  /\ promptCalls' = 0
  /\ waitLive' = {}
  /\ waitStale' = {}
  /\ loadInstalled' = InstalledMarker
  /\ clearedDismissal' = SessionDismissal
  /\ lastOp' = "NewSession"
  /\ UNCHANGED <<enablePWABanner, userAgent, localStorage>>

\* The parent stops rendering the component: the effect's cleanup runs
\* (lines 76-80) and the instance's state is discarded.  Closures of the
\* instance that still await userChoice keep running, with dead setters.
Unmount ==
  /\ mounted
  /\ mounted' = FALSE
  /\ timer' = TimerAfterCleanup
  /\ listening' = FALSE
  /\ showBanner' = FALSE
  /\ deferredPrompt' = 0
  /\ promptCalls' = 0
  /\ isIOS' = FALSE
  /\ waitStale' = waitStale \cup waitLive
  /\ waitLive' = {}
  /\ bipSeen' = FALSE
  /\ acceptedSeen' = FALSE
  /\ installedSeen' = FALSE
  /\ lastOp' = "Unmount"
  /\ UNCHANGED <<enablePWABanner, platformVars, isStandalone, localStorage,
                 sessionStorage, nextHandle, loadInstalled, clearedDismissal,
                 loadSkipped>>

\* The parent renders the component again within the same page load.
Remount ==
  /\ ~mounted
  /\ MountInstance(matchMedia, navStandalone, localStorage, sessionStorage)
  /\ lastOp' = "Remount"
  /\ UNCHANGED <<enablePWABanner, platformVars, localStorage, sessionStorage,
                 nextHandle, promptCalls, waitLive, waitStale, loadInstalled,
                 clearedDismissal, loadSkipped>>

\* settings.enablePWABanner changes.  On a mounted instance the dependency
\* array of line 81 makes React run the previous cleanup (lines 76-80) and
\* then the effect again (lines 41-74); useState values and the memoised
\* isStandalone are kept.
SettingsChange ==
  /\ enablePWABanner' = ~enablePWABanner
  /\ IF mounted
     THEN /\ isIOS' = IF EffectPasses(~enablePWABanner, isStandalone, localStorage, sessionStorage)
                      THEN IsIosDevice(userAgent) ELSE isIOS
          /\ timer' = IF EffectPasses(~enablePWABanner, isStandalone, localStorage, sessionStorage)
                      THEN "pending" ELSE TimerAfterCleanup
          /\ listening' = EffectPasses(~enablePWABanner, isStandalone, localStorage, sessionStorage)
          /\ bipSeen' = IF EffectPasses(~enablePWABanner, isStandalone, localStorage, sessionStorage)
                        THEN FALSE ELSE bipSeen
     ELSE UNCHANGED <<isIOS, timer, listening, bipSeen>>
  /\ loadSkipped' = IF loadSkipped = "disabled" THEN "changed" ELSE loadSkipped
  /\ lastOp' = "SettingsChange"
  /\ UNCHANGED <<mounted, platformVars, isStandalone, localStorage,
                 sessionStorage, showBanner, deferredPrompt, handleVars,
                 loadInstalled, clearedDismissal, acceptedSeen, installedSeen>>

\* ---- timer and window events ----

\* Variant of the timeout callback that does not reveal the panel.
TimerFires_NoReveal ==
  /\ timer = "pending"
  /\ timer' = "fired"
  /\ lastOp' = "TimerFires"
  /\ UNCHANGED <<enablePWABanner, mounted, platformVars, isStandalone,
                 localStorage, sessionStorage, showBanner, deferredPrompt,
                 isIOS, listening, handleVars, bipSeen, loadInstalled,
                 clearedDismissal,
                 loadSkipped, acceptedSeen, installedSeen>>

\* line 58: the timeout callback, () => setShowBanner(true).
TimerFires ==
  /\ timer = "pending"
  /\ timer' = "fired"
  /\ showBanner' = TRUE
  /\ lastOp' = "TimerFires"
  /\ UNCHANGED <<enablePWABanner, mounted, platformVars, isStandalone,
                 localStorage, sessionStorage, deferredPrompt, isIOS,
                 listening, handleVars, bipSeen, loadInstalled, clearedDismissal,
                 loadSkipped, acceptedSeen, installedSeen>>

\* The browser dispatches beforeinstallprompt (never on iOS, lines 12-13).
\* With the listener attached, lines 61-65 run; otherwise nobody handles it.
BeforeInstallPrompt ==
  /\ ~IsIosDevice(userAgent)
  /\ nextHandle < MaxHandles
  /\ nextHandle' = nextHandle + 1
  /\ IF listening
     THEN /\ deferredPrompt' = nextHandle + 1
          /\ promptCalls' = 0
          /\ showBanner' = TRUE
          /\ bipSeen' = TRUE
     ELSE UNCHANGED <<deferredPrompt, promptCalls, showBanner, bipSeen>>
  /\ lastOp' = "BeforeInstallPrompt"
  /\ UNCHANGED <<enablePWABanner, mounted, platformVars, isStandalone,
                 localStorage, sessionStorage, isIOS, timer, listening,
                 waitLive, waitStale, loadInstalled, clearedDismissal,
                 loadSkipped, acceptedSeen, installedSeen>>

\* Variant of handleInstalled without the setDeferredPrompt(null) of line 72.
AppInstalled_KeepsHandle ==
  /\ ~IsIosDevice(userAgent)
  /\ IF listening
     THEN /\ localStorage' = "1"
          /\ showBanner' = FALSE
          /\ UNCHANGED <<deferredPrompt, promptCalls>>
     ELSE UNCHANGED <<localStorage, showBanner, deferredPrompt, promptCalls>>
  /\ installedSeen' = (installedSeen \/ listening)
  /\ lastOp' = "AppInstalled"
  /\ UNCHANGED <<enablePWABanner, mounted, platformVars, isStandalone,
                 sessionStorage, isIOS, timer, listening, nextHandle,
                 waitLive, waitStale, bipSeen, loadInstalled, clearedDismissal,
                 loadSkipped, acceptedSeen>>

\* Variant in which handleInstalled is attached before the early returns.
AppInstalled_AlwaysHandles ==
  /\ ~IsIosDevice(userAgent)
  /\ IF TRUE
     THEN /\ localStorage' = "1"
          /\ showBanner' = FALSE
          /\ deferredPrompt' = 0
          /\ promptCalls' = 0
     ELSE UNCHANGED <<localStorage, showBanner, deferredPrompt, promptCalls>>
  /\ installedSeen' = TRUE
  /\ lastOp' = "AppInstalled"
  /\ UNCHANGED <<enablePWABanner, mounted, platformVars, isStandalone,
                 sessionStorage, isIOS, timer, listening, nextHandle,
                 waitLive, waitStale, bipSeen, loadInstalled, clearedDismissal,
                 loadSkipped, acceptedSeen>>

\* The browser dispatches appinstalled (Android/Chrome, line 17).  With the
\* listener attached, lines 69-73 run.
AppInstalled ==
  /\ ~IsIosDevice(userAgent)
  /\ IF listening
     THEN /\ localStorage' = "1"
          /\ showBanner' = FALSE
          /\ deferredPrompt' = 0
          /\ promptCalls' = 0
     ELSE UNCHANGED <<localStorage, showBanner, deferredPrompt, promptCalls>>
  /\ installedSeen' = (installedSeen \/ listening)
  /\ lastOp' = "AppInstalled"
  /\ UNCHANGED <<enablePWABanner, mounted, platformVars, isStandalone,
                 sessionStorage, isIOS, timer, listening, nextHandle,
                 waitLive, waitStale, bipSeen, loadInstalled, clearedDismissal,
                 loadSkipped, acceptedSeen>>

\* ---- click handlers (buttons exist only while the panel is rendered) ----

\* lines 85-88: handleInstallClick with a captured event, up to the await.
\* deferredPrompt is the value the rendered closure holds; it is cleared only
\* in the finally of line 97, after userChoice has settled.
InstallClickPrompt ==
  /\ Rendered
  /\ ~isIOS
  /\ deferredPrompt # 0
  /\ promptCalls < MaxClicks
  /\ promptCalls' = promptCalls + 1
  /\ waitLive' = waitLive \cup {deferredPrompt}
  /\ lastOp' = "InstallClickPrompt"
  /\ UNCHANGED <<enablePWABanner, mounted, platformVars, isStandalone,
                 localStorage, sessionStorage, showBanner, deferredPrompt,
                 isIOS, timer, listening, nextHandle, waitStale,
                 bipSeen, loadInstalled, clearedDismissal,
                 loadSkipped, acceptedSeen, installedSeen>>

\* line 86 on an event already prompted: the platform may make the repeated
\* prompt() throw; the call is outside the try, so the handler ends there.
InstallClickPromptThrows ==
  /\ Rendered
  /\ ~isIOS
  /\ deferredPrompt # 0
  /\ promptCalls >= 1
  /\ promptCalls < MaxClicks
  /\ promptCalls' = promptCalls + 1
  /\ lastOp' = "InstallClickPromptThrows"
  /\ UNCHANGED <<enablePWABanner, mounted, platformVars, isStandalone,
                 localStorage, sessionStorage, showBanner, deferredPrompt,
                 isIOS, timer, listening, nextHandle, waitLive,
                 waitStale, bipSeen, loadInstalled, clearedDismissal,
                 loadSkipped, acceptedSeen, installedSeen>>

\* Variant of the fallback branch that also hides the panel.
InstallClickFallback_Hides ==
  /\ Rendered
  /\ ~isIOS
  /\ deferredPrompt = 0
  /\ showBanner' = FALSE
  /\ lastOp' = "InstallClickFallback"
  /\ UNCHANGED <<enablePWABanner, mounted, platformVars, isStandalone,
                 localStorage, sessionStorage, deferredPrompt,
                 isIOS, timer, listening, handleVars, bipSeen, loadInstalled, clearedDismissal,
                 loadSkipped, acceptedSeen, installedSeen>>

\* lines 102-104: handleInstallClick without a captured event: alert() only.
InstallClickFallback ==
  /\ Rendered
  /\ ~isIOS
  /\ deferredPrompt = 0
  /\ lastOp' = "InstallClickFallback"
  /\ UNCHANGED <<enablePWABanner, mounted, platformVars, isStandalone,
                 localStorage, sessionStorage, showBanner, deferredPrompt,
                 isIOS, timer, listening, handleVars, bipSeen, loadInstalled, clearedDismissal,
                 loadSkipped, acceptedSeen, installedSeen>>

\* Variant of the continuation without the finally of lines 96-98.
ChoiceSettles_KeepsHandle(h, outcome) ==
  /\ h \in (waitLive \cup waitStale)
  /\ localStorage' = IF outcome = "accepted" /\ h \in (waitLive \cup waitStale)
                     THEN "1" ELSE localStorage
  /\ showBanner' = IF outcome = "accepted" /\ h \in waitLive
                   THEN FALSE ELSE showBanner
  /\ UNCHANGED <<deferredPrompt, promptCalls>>
  /\ waitLive' = waitLive \ {h}
  /\ waitStale' = waitStale \ {h}
  /\ acceptedSeen' = (acceptedSeen \/ (outcome = "accepted" /\ h \in waitLive))
  /\ lastOp' = IF outcome = "accepted" THEN "ChoiceAccepted"
               ELSE IF outcome = "dismissed" THEN "ChoiceDismissed"
               ELSE "ChoiceRejected"
  /\ UNCHANGED <<enablePWABanner, mounted, platformVars, isStandalone,
                 sessionStorage, isIOS, timer, listening, nextHandle,
                 bipSeen, loadInstalled, clearedDismissal,
                 loadSkipped, installedSeen>>

\* Variant of the continuation without the setShowBanner(false) of line 92.
ChoiceSettles_NoHide(h, outcome) ==
  /\ h \in (waitLive \cup waitStale)
  /\ localStorage' = IF outcome = "accepted" /\ h \in (waitLive \cup waitStale)
                     THEN "1" ELSE localStorage
  /\ showBanner' = showBanner
  /\ deferredPrompt' = IF h \in waitLive THEN 0 ELSE deferredPrompt
  /\ promptCalls' = IF h \in waitLive THEN 0 ELSE promptCalls
  /\ waitLive' = waitLive \ {h}
  /\ waitStale' = waitStale \ {h}
  /\ acceptedSeen' = (acceptedSeen \/ (outcome = "accepted" /\ h \in waitLive))
  /\ lastOp' = IF outcome = "accepted" THEN "ChoiceAccepted"
               ELSE IF outcome = "dismissed" THEN "ChoiceDismissed"
               ELSE "ChoiceRejected"
  /\ UNCHANGED <<enablePWABanner, mounted, platformVars, isStandalone,
                 sessionStorage, isIOS, timer, listening, nextHandle,
                 bipSeen, loadInstalled, clearedDismissal,
                 loadSkipped, installedSeen>>

\* lines 88-98: userChoice of a prompted event h settles and every closure
\* awaiting it resumes in the same microtask checkpoint.  Closures of the current
\* instance set state; closures of an unmounted instance only reach storage.
ChoiceSettles(h, outcome) ==
  /\ h \in (waitLive \cup waitStale)
  /\ localStorage' = IF outcome = "accepted" /\ h \in (waitLive \cup waitStale)
                     THEN "1" ELSE localStorage
  /\ showBanner' = IF outcome = "accepted" /\ h \in waitLive
                   THEN FALSE ELSE showBanner
  /\ deferredPrompt' = IF h \in waitLive THEN 0 ELSE deferredPrompt
  /\ promptCalls' = IF h \in waitLive THEN 0 ELSE promptCalls
  /\ waitLive' = waitLive \ {h}
  /\ waitStale' = waitStale \ {h}
  /\ acceptedSeen' = (acceptedSeen \/ (outcome = "accepted" /\ h \in waitLive))
  /\ lastOp' = IF outcome = "accepted" THEN "ChoiceAccepted"
               ELSE IF outcome = "dismissed" THEN "ChoiceDismissed"
               ELSE "ChoiceRejected"
  /\ UNCHANGED <<enablePWABanner, mounted, platformVars, isStandalone,
                 sessionStorage, isIOS, timer, listening, nextHandle,
                 bipSeen, loadInstalled, clearedDismissal,
                 loadSkipped, installedSeen>>

ChoiceResolves ==
  \E h \in Handles, outcome \in Outcomes : ChoiceSettles(h, outcome)

\* Variant of the dismiss handler that also writes the durable key.
HandleDismissForSession_Durable ==
  /\ Rendered
  /\ sessionStorage' = "1"
  /\ localStorage' = "1"
  /\ showBanner' = FALSE
  /\ lastOp' = "Dismiss"
  /\ UNCHANGED <<enablePWABanner, mounted, platformVars, isStandalone,
                 deferredPrompt, isIOS, timer, listening, handleVars,
                 bipSeen, loadInstalled, clearedDismissal,
                 loadSkipped, acceptedSeen, installedSeen>>

\* Variant of the dismiss handler that removes the durable key.
HandleDismissForSession_ClearsInstalled ==
  /\ Rendered
  /\ sessionStorage' = "1"
  /\ showBanner' = FALSE
  /\ localStorage' = "null"
  /\ lastOp' = "Dismiss"
  /\ UNCHANGED <<enablePWABanner, mounted, platformVars, isStandalone,
                 deferredPrompt, isIOS, timer, listening,
                 handleVars, bipSeen, loadInstalled, clearedDismissal,
                 loadSkipped, acceptedSeen, installedSeen>>

\* lines 107-110
HandleDismissForSession ==
  /\ Rendered
  /\ sessionStorage' = "1"
  /\ showBanner' = FALSE
  /\ lastOp' = "Dismiss"
  /\ UNCHANGED <<enablePWABanner, mounted, platformVars, isStandalone,
                 localStorage, deferredPrompt, isIOS, timer, listening,
                 handleVars, bipSeen, loadInstalled, clearedDismissal,
                 loadSkipped, acceptedSeen, installedSeen>>

\* Variant of the self-report handler that forgets to hide the panel.
HandleAlreadyInstalled_NoHide ==
  /\ Rendered
  /\ localStorage' = "1"
  /\ lastOp' = "AlreadyInstalled"
  /\ UNCHANGED <<enablePWABanner, mounted, platformVars, isStandalone,
                 sessionStorage, showBanner, deferredPrompt, isIOS, timer,
                 listening, handleVars, bipSeen, loadInstalled,
                 clearedDismissal,
                 loadSkipped, acceptedSeen, installedSeen>>

\* lines 112-116
HandleAlreadyInstalled ==
  /\ Rendered
  /\ localStorage' = "1"
  /\ showBanner' = FALSE
  /\ lastOp' = "AlreadyInstalled"
  /\ UNCHANGED <<enablePWABanner, mounted, platformVars, isStandalone,
                 sessionStorage, deferredPrompt, isIOS, timer, listening,
                 handleVars, bipSeen, loadInstalled, clearedDismissal,
                 loadSkipped, acceptedSeen, installedSeen>>

\* ---- specifications ----

Next ==
  \/ PageLoad
  \/ NewSession
  \/ Unmount
  \/ Remount
  \/ SettingsChange
  \/ TimerFires
  \/ BeforeInstallPrompt
  \/ AppInstalled
  \/ InstallClickPrompt
  \/ InstallClickPromptThrows
  \/ InstallClickFallback
  \/ ChoiceResolves
  \/ HandleDismissForSession
  \/ HandleAlreadyInstalled

Spec == Init /\ [][Next]_vars

\* A scheduled timeout that is not cleared does fire: the browser's timer
\* queue runs every pending callback.
FairSpec == Init /\ [][Next]_vars /\ WF_vars(TimerFires)

Ops ==
  {"PageLoad", "NewSession", "Unmount", "Remount", "SettingsChange",
   "TimerFires", "BeforeInstallPrompt", "AppInstalled", "InstallClickPrompt",
   "InstallClickPromptThrows", "InstallClickFallback", "ChoiceAccepted",
   "ChoiceDismissed", "ChoiceRejected", "Dismiss", "AlreadyInstalled"}

TypeOK ==
  /\ enablePWABanner \in BOOLEAN
  /\ mounted \in BOOLEAN
  /\ userAgent \in UserAgents
  /\ matchMedia \in MatchMediaResults
  /\ navStandalone \in NavStandaloneValues
  /\ isStandalone \in BOOLEAN
  /\ localStorage \in {"null", "1"}
  /\ sessionStorage \in {"null", "1"}
  /\ showBanner \in BOOLEAN
  /\ deferredPrompt \in 0..MaxHandles
  /\ isIOS \in BOOLEAN
  /\ timer \in {"none", "pending", "fired", "cleared"}
  /\ listening \in BOOLEAN
  /\ nextHandle \in 0..MaxHandles
  /\ promptCalls \in 0..MaxClicks
  /\ waitLive \subseteq Handles
  /\ waitStale \subseteq Handles
  /\ lastOp \in Ops
  /\ bipSeen \in BOOLEAN
  /\ loadInstalled \in BOOLEAN
  /\ clearedDismissal \in BOOLEAN
  /\ loadSkipped \in {"no", "gated", "disabled", "changed"}
  /\ acceptedSeen \in BOOLEAN
  /\ installedSeen \in BOOLEAN

\* A held event that has been prompted has its userChoice still awaited, and
\* calls are counted for a held event only.
HeldHandlePending ==
  /\ (deferredPrompt # 0 /\ promptCalls > 0) => deferredPrompt \in waitLive
  /\ deferredPrompt = 0 => promptCalls = 0

\* ---- properties ----

\* C1: once InstalledMarker is set, no step of the engine turns showBanner
\* from false to true.
C1_InstalledNeverRevealed ==
  [][(InstalledMarker /\ ~showBanner) => ~showBanner']_vars

\* C2: while SessionDismissal is set the panel is not revealed: neither the
\* pending timer, nor a later beforeinstallprompt, nor a later page load of
\* the session makes showBanner true.
C2_DismissedStaysHidden ==
  SessionDismissal => ~showBanner

\* C3: prompt() is called at most once on a captured event, also when Install
\* is clicked again before userChoice has settled.
C3_PromptOnce ==
  promptCalls <= 1

\* C4: with enablePWABanner false the panel is not rendered, whatever
\* showBanner, the storages and the display mode are, and the effect has no
\* timer pending and no listener attached.
C4_DisabledNoWork ==
  ~enablePWABanner => (~Rendered /\ timer # "pending" /\ ~listening)

\* Disabled after the panel had been revealed: showBanner is still true, the
\* timer was cleared and a beforeinstallprompt has just been dispatched.
C4_Witness ==
  /\ ~enablePWABanner
  /\ mounted
  /\ showBanner
  /\ timer = "cleared"
  /\ lastOp = "BeforeInstallPrompt"

C6_InstalledLoadHidden ==
  loadInstalled => ~showBanner

\* A load with the flag set and every other gate open, in which the browser
\* has dispatched beforeinstallprompt.
C6_Witness ==
  /\ loadInstalled
  /\ mounted
  /\ enablePWABanner
  /\ ~isStandalone
  /\ ~SessionDismissal
  /\ lastOp = "BeforeInstallPrompt"

\* The mount evaluation has just run with every gate open on a non-iOS browser.
C7_Eligible ==
  /\ lastOp \in {"PageLoad", "NewSession", "Remount"}
  /\ enablePWABanner
  /\ ~isStandalone
  /\ ~InstalledMarker
  /\ ~SessionDismissal
  /\ ~IsIosDevice(userAgent)

\* C7: from such a mount the timer is pending and, unless the effect is torn
\* down first, showBanner eventually becomes true; a beforeinstallprompt
\* handled while the timer is still pending leaves showBanner true at once.
C7_DelayThenVisible ==
  /\ [](C7_Eligible => (timer = "pending" /\ listening))
  /\ (C7_Eligible ~> (showBanner \/ ~listening))
  /\ []((lastOp = "BeforeInstallPrompt" /\ timer = "pending") => showBanner)

\* The delay elapsed on a non-iOS browser with no event captured.
C7_Witness ==
  /\ lastOp = "TimerFires"
  /\ showBanner
  /\ ~IsIosDevice(userAgent)
  /\ deferredPrompt = 0
  /\ ~InstalledMarker
  /\ ~SessionDismissal

C9_FreshEligible ==
  /\ lastOp = "NewSession"
  /\ clearedDismissal
  /\ enablePWABanner
  /\ ~isStandalone
  /\ ~InstalledMarker

\* C9: Dismiss sets SessionDismissal and hides the panel without touching
\* INSTALLED_KEY; a fresh session after it is eligible again (timer pending)
\* and, unless torn down first, reveals the panel.
C9_DismissSessionScoped ==
  /\ [][lastOp' = "Dismiss" =>
          (SessionDismissal' /\ ~showBanner' /\ localStorage' = localStorage)]_vars
  /\ [](C9_FreshEligible => (~SessionDismissal /\ timer = "pending" /\ listening))
  /\ (C9_FreshEligible ~> (showBanner \/ ~listening))

\* The panel revealed by the delay in a session that began by dropping the
\* dismissal of the previous one.
C9_Witness ==
  /\ clearedDismissal
  /\ lastOp = "TimerFires"
  /\ showBanner
  /\ ~SessionDismissal
  /\ ~InstalledMarker

\* C10: once beforeinstallprompt has been handled, the timer set by the same
\* effect run no longer changes showBanner.
C10_EventCancelsTimer ==
  [][(bipSeen /\ lastOp' = "TimerFires") => showBanner' = showBanner]_vars
\* C11: once the effect is torn down no timer is pending and no listener is
\* attached, and a timer expiry, beforeinstallprompt or appinstalled that
\* comes later changes none of showBanner, deferredPrompt and the two keys.
C11_TeardownDetaches ==
  /\ [](~listening => timer # "pending")
  /\ [][(~listening /\ lastOp' \in {"TimerFires", "BeforeInstallPrompt", "AppInstalled"})
          => UNCHANGED <<showBanner, deferredPrompt, localStorage, sessionStorage>>]_vars

\* The effect had set its timer and was torn down before it fired; an
\* appinstalled dispatched afterwards left the durable key unset.
C11_Witness ==
  /\ lastOp = "AppInstalled"
  /\ ~listening
  /\ timer = "cleared"
  /\ ~InstalledMarker
  /\ ~SessionDismissal

\* C12: a userChoice that settles 'accepted' after the effect of the instance
\* that invoked Install was torn down (settings switched off, or the instance
\* unmounted) changes none of INSTALLED_KEY, showBanner and deferredPrompt.
C12_LateChoiceIgnored ==
  [][(lastOp' = "ChoiceAccepted" /\ (~enablePWABanner \/ waitLive' = waitLive))
      => UNCHANGED <<localStorage, showBanner, deferredPrompt>>]_vars
\* C13 as stated: whenever appinstalled has been dispatched, INSTALLED_KEY is
\* set, showBanner is false and deferredPrompt is null.
C13_SignalAlwaysHandled ==
  lastOp = "AppInstalled" => (InstalledMarker /\ ~showBanner /\ deferredPrompt = 0)

\* C13 amended: appinstalled dispatched while the effect's listener is
\* attached sets INSTALLED_KEY, makes showBanner false and deferredPrompt
\* null whatever they were; dispatched while no listener is attached it
\* changes none of them.
C13_InstalledSignal ==
  [][lastOp' = "AppInstalled" =>
       IF listening
       THEN InstalledMarker' /\ ~showBanner' /\ deferredPrompt' = 0
       ELSE UNCHANGED <<localStorage, showBanner, deferredPrompt>>]_vars

\* handleInstalled has run in a load that began without the flag and in
\* which an event had been captured.
C13_Witness ==
  /\ lastOp = "AppInstalled"
  /\ listening
  /\ bipSeen
  /\ ~loadInstalled
  /\ InstalledMarker
  /\ ~showBanner
  /\ deferredPrompt = 0

\* C14: when userChoice of a prompted event settles, whatever the outcome,
\* that event is no longer held, and deferredPrompt is null if a closure of
\* the mounted instance awaited it; a rejection changes neither storage key
\* nor showBanner, and the dismiss control of a rendered panel stays usable.
C14_HandleDiscarded ==
  /\ [][\A h \in Handles :
          (/\ lastOp' \in {"ChoiceAccepted", "ChoiceDismissed", "ChoiceRejected"}
           /\ h \in (waitLive \cup waitStale)
           /\ h \notin (waitLive' \cup waitStale'))
          => /\ deferredPrompt' # h
             /\ h \in waitLive => deferredPrompt' = 0]_vars
  /\ [][lastOp' = "ChoiceRejected" =>
          UNCHANGED <<localStorage, sessionStorage, showBanner>>]_vars
  /\ []((lastOp = "ChoiceRejected" /\ Rendered) => ENABLED HandleDismissForSession)

\* userChoice rejected on the mounted instance: the panel is still shown, no
\* key is set and the event is gone.
C14_Witness ==
  /\ lastOp = "ChoiceRejected"
  /\ Rendered
  /\ deferredPrompt = 0
  /\ ~InstalledMarker
  /\ ~SessionDismissal

\* C15: Install with no captured event takes the fallback branch only: it
\* calls no prompt(), starts no await and changes none of showBanner,
\* deferredPrompt and the two keys; prompt() is called only with an event held.
C15_FallbackOnly ==
  /\ [][lastOp' = "InstallClickFallback" =>
          (/\ deferredPrompt = 0
           /\ UNCHANGED <<showBanner, deferredPrompt, localStorage, sessionStorage,
                          promptCalls, waitLive, waitStale>>)]_vars
  /\ [][lastOp' \in {"InstallClickPrompt", "InstallClickPromptThrows"} =>
          (deferredPrompt # 0 /\ promptCalls' = promptCalls + 1)]_vars

\* The fallback shown on a panel revealed by the delay alone.
C15_Witness ==
  /\ lastOp = "InstallClickFallback"
  /\ Rendered
  /\ deferredPrompt = 0
  /\ promptCalls = 0
  /\ ~InstalledMarker
  /\ ~SessionDismissal

\* INSTALLED_KEY set, panel hidden, no event held.
InstalledFinal ==
  InstalledMarker /\ ~showBanner /\ deferredPrompt = 0

\* C16: when the accepted branch and handleInstalled both run in one
\* instance, whichever runs second leaves InstalledFinal, and run on a state
\* that already is InstalledFinal either of them changes nothing of it.
C16_DoubleWriteIdempotent ==
  /\ [][(lastOp' = "AppInstalled" /\ listening /\ acceptedSeen) => InstalledFinal']_vars
  /\ [][(lastOp' = "ChoiceAccepted" /\ waitLive' # waitLive /\ installedSeen)
          => InstalledFinal']_vars
  /\ [][(InstalledFinal /\ lastOp' \in {"AppInstalled", "ChoiceAccepted"})
          => UNCHANGED <<localStorage, showBanner, deferredPrompt>>]_vars

\* The accepted branch has just run after handleInstalled had run.
C16_Witness ==
  /\ lastOp = "ChoiceAccepted"
  /\ acceptedSeen
  /\ installedSeen
  /\ ~loadInstalled
  /\ InstalledFinal

\* C17: no step clears INSTALLED_KEY, and HIDE_SESSION_KEY is cleared only by
\* the end of the session.
C17_FlagsMonotonic ==
  [][/\ InstalledMarker => InstalledMarker'
     /\ (SessionDismissal /\ ~SessionDismissal') => lastOp' = "NewSession"]_vars

\* Both keys set and kept across a reload within the session.
C17_Witness ==
  /\ InstalledMarker
  /\ SessionDismissal
  /\ loadInstalled
  /\ lastOp = "PageLoad"

\* No timer, no listener, panel hidden, no event held.
Quiet ==
  ~showBanner /\ deferredPrompt = 0 /\ timer = "none" /\ ~listening

\* C18 as stated: a page load whose mount evaluation was skipped stays Quiet
\* for the whole load.
C18_SkippedLoadQuiet ==
  loadSkipped # "no" => Quiet

\* C18 amended: a page load whose mount evaluation was skipped stays Quiet,
\* and beforeinstallprompt / appinstalled write nothing, for the whole load
\* when it was skipped for standalone mode, INSTALLED_KEY or HIDE_SESSION_KEY,
\* and until enablePWABanner changes when it was skipped for that alone.
C18_SkippedLoadStaysQuiet ==
  /\ [](loadSkipped \in {"gated", "disabled"} => Quiet)
  /\ [][(loadSkipped \in {"gated", "disabled"}
          /\ lastOp' \in {"BeforeInstallPrompt", "AppInstalled"})
          => UNCHANGED <<localStorage, sessionStorage, showBanner, deferredPrompt>>]_vars

\* appinstalled dispatched during a load skipped for the session key alone:
\* the durable key is still unset.
C18_Witness ==
  /\ loadSkipped = "gated"
  /\ lastOp = "AppInstalled"
  /\ enablePWABanner
  /\ ~isStandalone
  /\ SessionDismissal
  /\ ~InstalledMarker
====
